---- MODULE Spec2Model ----
(***************************************************************************)
(* PolicyStack CLI: the three-way merge core (policystack/core/merger.py)  *)
(* and the apply stage of the upgrade command                              *)
(* (policystack/commands/upgrade.py).                                      *)
(*                                                                         *)
(* Value trees are records tagged by t:                                    *)
(*   [t |-> "null"]                      Python None (also "absent")       *)
(*   [t |-> "int", v |-> n]              a scalar; 0 is the falsy scalar   *)
(*   [t |-> "map", kv |-> <<<<k, x>>>>]  a dict / CommentedMap, in         *)
(*                                       insertion order, keys unique      *)
(*   [t |-> "list", items |-> <<x>>]     a list / CommentedSeq             *)
(* A merge outcome is [val, conf, err]: the returned tree, the conflicts   *)
(* appended to self.conflicts in order, and whether an exception escaped.  *)
(***************************************************************************)
EXTENDS Integers, Sequences, FiniteSets, TLC

VARIABLES
  \* a merge: its inputs, where it stands, and what it returned
  base, local, remote, pc, merged, conflicts, raised,
  \* an upgrade: the element directory, the sibling backup directory, what
  \* the command was given, where it stands, and the step that failed
  elem, backup, conf, autoResolve, dryRun, remoteHas, upc, failedAt,
  \* the temporary directories of the target and of the base version, and
  \* the merged values in memory
  tmpRemote, tmpBase, mergedValues,
  \* the backup directory when the command started, and the element
  \* directory when the backup copy was taken (history, not program state)
  backup0, saved

mergeVars == <<base, local, remote, pc, merged, conflicts, raised>>

upgradeVars ==
  <<elem, backup, conf, autoResolve, remoteHas, upc, failedAt, backup0, saved,
    dryRun, tmpRemote, tmpBase, mergedValues>>

vars == <<mergeVars, upgradeVars>>

(***************************************************************************)
(* Bounds of the model.                                                    *)
(***************************************************************************)
\* scalars are 0..MaxScalar (and null)
MaxScalar == 1
\* names of named-list items are 0..MaxName (0 is the falsy name)
MaxName == 4
\* a text is at most MaxText units long
MaxText == 2
\* the merge of values.yaml reports at most MaxConflicts conflicts
MaxConflicts == 2

(***************************************************************************)
(* The value tree model.                                                   *)
(***************************************************************************)
Null == [t |-> "null"]

Sc(n) == [t |-> "int", v |-> n]

Mp(kv) == [t |-> "map", kv |-> kv]

Lst(items) == [t |-> "list", items |-> items]

IsMap(x) == x.t = "map"

IsList(x) == x.t = "list"

\* Python truthiness: None, 0, {} and [] are falsy
Truthy(x) ==
  CASE x.t = "null" -> FALSE
    [] x.t = "int" -> x.v # 0
    [] x.t = "map" -> Len(x.kv) > 0
    [] x.t = "list" -> Len(x.items) > 0

KeysOf(m) == [i \in 1..Len(m.kv) |-> m.kv[i][1]]

KeySet(m) == {m.kv[i][1] : i \in 1..Len(m.kv)}

HasKey(m, k) == k \in KeySet(m)

\* m[k], for a key m has
Get(m, k) == m.kv[CHOOSE i \in 1..Len(m.kv) : m.kv[i][1] = k][2]

\* dict.get(k): None when the key is missing
GetOrNull(m, k) == IF HasKey(m, k) THEN Get(m, k) ELSE Null

RECURSIVE Eq(_, _)
\* Python ==: mappings compare as plain dicts (key order is ignored),
\* sequences compare position by position
Eq(x, y) ==
  IF x.t # y.t THEN FALSE
  ELSE CASE x.t = "null" -> TRUE
         [] x.t = "int" -> x.v = y.v
         [] x.t = "str" -> x.s = y.s
         [] x.t = "list" ->
              /\ Len(x.items) = Len(y.items)
              /\ \A i \in 1..Len(x.items) : Eq(x.items[i], y.items[i])
         [] x.t = "map" ->
              /\ Len(x.kv) = Len(y.kv)
              /\ \A i \in 1..Len(x.kv) :
                   /\ HasKey(y, x.kv[i][1])
                   /\ Eq(x.kv[i][2], Get(y, x.kv[i][1]))

(***************************************************************************)
(* MergeConflict.                                                          *)
(***************************************************************************)
\* _check_auto_resolvable: the resolution it assigns and the bool it returns
CheckAutoResolvable(b, l, r) ==
  IF Eq(b, r) THEN [resolution |-> "keep_local", ret |-> TRUE]
  ELSE IF Eq(b, l) THEN [resolution |-> "take_remote", ret |-> TRUE]
  ELSE [resolution |-> "none", ret |-> FALSE]

\* MergeConflict.__init__
MergeConflict(path, b, l, r) ==
  [path |-> path, base_value |-> b, local_value |-> l, remote_value |-> r,
   resolution |-> CheckAutoResolvable(b, l, r).resolution,
   auto_resolvable |-> CheckAutoResolvable(b, l, r).ret]

(***************************************************************************)
(* Paths: a sequence of segments, [key |-> k] for ".k" and [sel |-> n] for *)
(* "[name=n]".                                                             *)
(***************************************************************************)
KeySeg(k) == [key |-> k]

SelSeg(n) == [sel |-> n]

Ret(v) == [val |-> v, conf |-> <<>>, err |-> FALSE]

Raise == [val |-> Null, conf |-> <<>>, err |-> TRUE]

(***************************************************************************)
(* PreservingYAMLMerger.                                                   *)
(***************************************************************************)
\* _is_named_list
IsNamedList(lst) ==
  /\ Len(lst.items) > 0
  /\ \A i \in 1..Len(lst.items) : IsMap(lst.items[i])
  /\ \A i \in 1..Len(lst.items) : HasKey(lst.items[i], "name")

\* the value a {item.get('name'): item ...} comprehension builds from the
\* dict items of a sequence: names in order of first occurrence, each with
\* the last item carrying it
RECURSIVE ByName(_)
ByName(items) ==
  IF items = <<>> THEN <<>>
  ELSE LET prefix == ByName(SubSeq(items, 1, Len(items) - 1))
           it == items[Len(items)]
           nm == GetOrNull(it, "name")
       IN IF ~IsMap(it) THEN prefix
          ELSE IF \E i \in 1..Len(prefix) : prefix[i][1] = nm
               THEN [i \in 1..Len(prefix) |->
                       IF prefix[i][1] = nm THEN <<nm, it>> ELSE prefix[i]]
               ELSE Append(prefix, <<nm, it>>)

InByName(d, nm) == \E i \in 1..Len(d) : d[i][1] = nm

AtName(d, nm) == d[CHOOSE i \in 1..Len(d) : d[i][1] = nm][2]

\* a dict key must be hashable: a name that is a mapping or a sequence
\* makes the comprehension raise TypeError
Unhashable(items) ==
  \E i \in 1..Len(items) :
     /\ IsMap(items[i])
     /\ GetOrNull(items[i], "name").t \in {"map", "list"}

\* a merger that takes the remote value where both sides changed
ScalarRuleRemoteWins(b, l, r, path) ==
  IF Eq(b, l) THEN Ret(r)
  ELSE IF Eq(b, r) THEN Ret(l)
  ELSE [val |-> r, conf |-> <<MergeConflict(path, b, l, r)>>, err |-> FALSE]

\* _deep_merge, lines 104-113: scalars and values of different types
ScalarRule(b, l, r, path) ==
  IF Eq(b, l) THEN Ret(r)
  ELSE IF Eq(b, r) THEN Ret(l)
  ELSE [val |-> l, conf |-> <<MergeConflict(path, b, l, r)>>, err |-> FALSE]

\* a merger that keeps a remotely deleted key without reporting it
LocalOnlySilent(b, l, k, kp, acc) ==
  [acc EXCEPT !.kv = Append(acc.kv, <<k, Get(l, k)>>)]

\* _merge_dicts, a key only local has: kept, and a conflict when base has it
LocalOnly(b, l, k, kp, acc) ==
  [kv |-> Append(acc.kv, <<k, Get(l, k)>>),
   conf |-> IF IsMap(b) /\ HasKey(b, k)
            THEN Append(acc.conf,
                        MergeConflict(kp, Get(b, k), Get(l, k), Null))
            ELSE acc.conf,
   err |-> FALSE]

\* a merger that ignores the keys only remote has
RemoteOnlyDropped(r, k, acc) == acc

\* _merge_dicts, a key only remote has: added
RemoteOnly(r, k, acc) == [acc EXCEPT !.kv = Append(acc.kv, <<k, Get(r, k)>>)]

\* a merger that walks remote's keys first
AllKeysRemoteFirst(l, r) ==
  KeysOf(r) \o SelectSeq(KeysOf(l), LAMBDA k : ~HasKey(r, k))

\* all_keys of _merge_dicts: local's keys, then remote's keys not in local
AllKeys(l, r) ==
  KeysOf(l) \o SelectSeq(KeysOf(r), LAMBDA k : ~HasKey(l, k))

RECURSIVE DeepMerge(_, _, _, _)
RECURSIVE MergeKeys(_, _, _, _, _, _)
RECURSIVE MergeLocalItems(_, _, _, _, _)

\* the loop body of _merge_dicts for the keys still to do; acc is
\* [kv, conf, err]
MergeKeys(b, l, r, path, keys, acc) ==
  IF keys = <<>> \/ acc.err THEN acc
  ELSE
    LET k == Head(keys)
        kp == Append(path, KeySeg(k))
        step ==
          IF HasKey(l, k) /\ HasKey(r, k)
          THEN \* base.get(key) if base else None
               IF Truthy(b) /\ ~IsMap(b)
               THEN [acc EXCEPT !.err = TRUE]
               ELSE LET bv == IF Truthy(b) THEN GetOrNull(b, k) ELSE Null
                        m == DeepMerge(bv, Get(l, k), Get(r, k), kp)
                    IN [kv |-> Append(acc.kv, <<k, m.val>>),
                        conf |-> acc.conf \o m.conf,
                        err |-> m.err]
          ELSE IF HasKey(l, k)
          THEN \* local only; `key in base` raises on an int
               IF b.t = "int"
               THEN [acc EXCEPT !.err = TRUE]
               ELSE LocalOnly(b, l, k, kp, acc)
          ELSE RemoteOnly(r, k, acc)
    IN MergeKeys(b, l, r, path, Tail(keys), step)

\* _merge_dicts (b is the caller's `base or CommentedMap()`)
MergeDicts(b, l, r, path) ==
  LET acc == MergeKeys(b, l, r, path, AllKeys(l, r),
                       [kv |-> <<>>, conf |-> <<>>, err |-> FALSE])
  IN IF acc.err THEN Raise
     ELSE [val |-> Mp(acc.kv), conf |-> acc.conf, err |-> FALSE]

\* the first loop of _merge_named_lists over the local items still to do;
\* acc is [items, conf, err]
MergeLocalItems(bBy, rBy, path, items, acc) ==
  IF items = <<>> \/ acc.err THEN acc
  ELSE
    LET it == Head(items)
        nm == GetOrNull(it, "name")
        step ==
          IF ~IsMap(it) \/ ~Truthy(nm) THEN acc
          ELSE IF InByName(rBy, nm)
          THEN LET bi == IF InByName(bBy, nm) THEN AtName(bBy, nm)
                         ELSE Mp(<<>>)
                   m == DeepMerge(bi, it, AtName(rBy, nm),
                                  Append(path, SelSeg(nm)))
               IN [items |-> Append(acc.items, m.val),
                   conf |-> acc.conf \o m.conf,
                   err |-> m.err]
          ELSE [acc EXCEPT !.items = Append(acc.items, it)]
    IN MergeLocalItems(bBy, rBy, path, Tail(items), step)

\* seen_names after the first loop
SeenNames(l) ==
  {GetOrNull(l.items[i], "name") :
     i \in {j \in 1..Len(l.items) :
              IsMap(l.items[j]) /\ Truthy(GetOrNull(l.items[j], "name"))}}

\* _merge_named_lists (b is the caller's `base or CommentedSeq()`)
MergeNamedLists(b, l, r, path) ==
  IF b.t = "int" THEN Raise  \* iterating an int
  ELSE IF (IsList(b) /\ Unhashable(b.items))
          \/ Unhashable(l.items) \/ Unhashable(r.items) THEN Raise
  ELSE
    LET bBy == IF IsList(b) THEN ByName(b.items) ELSE <<>>
        rBy == ByName(r.items)
        acc == MergeLocalItems(bBy, rBy, path, l.items,
                               [items |-> <<>>, conf |-> <<>>, err |-> FALSE])
        seen == SeenNames(l)
        rOnly == SelectSeq(rBy, LAMBDA p : p[1] \notin seen)
    IN IF acc.err THEN Raise
       ELSE [val |-> Lst(acc.items
                         \o [i \in 1..Len(rOnly) |-> rOnly[i][2]]),
             conf |-> acc.conf, err |-> FALSE]

\* _merge_lists (b is the caller's `base or CommentedSeq()`)
MergeLists(b, l, r, path) ==
  IF IsNamedList(l) \/ IsNamedList(r) THEN MergeNamedLists(b, l, r, path)
  ELSE IF ~Eq(l, b) /\ ~Eq(r, b) /\ ~Eq(l, r)
  THEN [val |-> l, conf |-> <<MergeConflict(path, b, l, r)>>, err |-> FALSE]
  ELSE IF ~Eq(l, b) THEN Ret(l)
  ELSE Ret(r)

\* _deep_merge
DeepMerge(b, l, r, path) ==
  IF Eq(l, r) THEN Ret(l)
  ELSE IF IsMap(l) /\ IsMap(r)
  THEN MergeDicts(IF Truthy(b) THEN b ELSE Mp(<<>>), l, r, path)
  ELSE IF IsList(l) /\ IsList(r)
  THEN MergeLists(IF Truthy(b) THEN b ELSE Lst(<<>>), l, r, path)
  ELSE ScalarRule(b, l, r, path)

\* A CommentedMap that carries comments has a field ca: the set of
\* <<key, text>> of the comments attached to its keys (its _yaml_comment);
\* a mapping without the field has no _yaml_comment attribute.
MpC(kv, ca) == [t |-> "map", kv |-> kv, ca |-> ca]

\* hasattr(m, '_yaml_comment')
HasCa(m) == "ca" \in DOMAIN m

RECURSIVE PreserveComments(_, _)
\* _preserve_comments: the target as the call leaves it
PreserveComments(source, target) ==
  IF ~IsMap(source) \/ ~IsMap(target) THEN target
  ELSE LET kv == [i \in 1..Len(target.kv) |->
                   LET k == target.kv[i][1]
                       v == target.kv[i][2]
                   IN IF HasKey(source, k)
                      THEN <<k, PreserveComments(Get(source, k), v)>>
                      ELSE <<k, v>>]
       IN IF HasCa(source) THEN MpC(kv, source.ca)
          ELSE IF HasCa(target) THEN MpC(kv, target.ca)
          ELSE Mp(kv)

\* a merger whose top level lacks the `local == remote` shortcut
MergeWithoutShortcut(b, l, r) ==
  IF IsMap(l) /\ IsMap(r)
  THEN MergeDicts(IF Truthy(b) THEN b ELSE Mp(<<>>), l, r, <<>>)
  ELSE IF IsList(l) /\ IsList(r)
  THEN MergeLists(IF Truthy(b) THEN b ELSE Lst(<<>>), l, r, <<>>)
  ELSE ScalarRule(b, l, r, <<>>)

\* PreservingYAMLMerger.merge
PreservingMerge(b, l, r) ==
  LET m == DeepMerge(b, l, r, <<>>)
  IN IF ~m.err /\ IsMap(l) /\ IsMap(m.val)
     THEN [m EXCEPT !.val = PreserveComments(l, m.val)]
     ELSE m

(***************************************************************************)
(* YAMLMerger.  It walks set(local) | set(remote): the iteration order of  *)
(* a set is not fixed, so the walk takes an enumeration of the keys (and   *)
(* of the names) either forwards or backwards (rev).                       *)
(***************************************************************************)
Reverse(s) == [i \in 1..Len(s) |-> s[Len(s) + 1 - i]]

KeyUniverse == <<"a", "b", "c", "d", "name">>

NameUniverse ==
  <<Null>> \o [i \in 1..(MaxName + MaxScalar + 1) |-> Sc(i - 1)]

Walk(universe, rev) == IF rev THEN Reverse(universe) ELSE universe

NamesIn(d) == {d[i][1] : i \in 1..Len(d)}

RECURSIVE YDeepMerge(_, _, _, _, _)
RECURSIVE YMergeKeys(_, _, _, _, _, _, _)
RECURSIVE YMergeNames(_, _, _, _, _, _, _)

\* the loop body of YAMLMerger._merge_dicts for the keys still to do
YMergeKeys(b, l, r, path, keys, acc, rev) ==
  IF keys = <<>> \/ acc.err THEN acc
  ELSE
    LET k == Head(keys)
        kp == Append(path, KeySeg(k))
        step ==
          IF HasKey(l, k) /\ HasKey(r, k)
          THEN \* base.get(key)
               IF ~IsMap(b)
               THEN [acc EXCEPT !.err = TRUE]
               ELSE LET m == YDeepMerge(GetOrNull(b, k), Get(l, k),
                                        Get(r, k), kp, rev)
                    IN [kv |-> Append(acc.kv, <<k, m.val>>),
                        conf |-> acc.conf \o m.conf,
                        err |-> m.err]
          ELSE IF b.t = "int"
          THEN \* `key in base` raises on an int
               [acc EXCEPT !.err = TRUE]
          ELSE IF HasKey(l, k)
          THEN [kv |-> Append(acc.kv, <<k, Get(l, k)>>),
                conf |-> IF IsMap(b) /\ HasKey(b, k)
                         THEN Append(acc.conf,
                                MergeConflict(kp, Get(b, k), Get(l, k), Null))
                         ELSE acc.conf,
                err |-> FALSE]
          ELSE IF IsMap(b) /\ HasKey(b, k)
          THEN \* deleted in local: a conflict, and the key is not merged
               [acc EXCEPT !.conf =
                  Append(acc.conf,
                         MergeConflict(kp, Get(b, k), Null, Get(r, k)))]
          ELSE [acc EXCEPT !.kv = Append(acc.kv, <<k, Get(r, k)>>)]
    IN YMergeKeys(b, l, r, path, Tail(keys), step, rev)

\* YAMLMerger._merge_dicts (b is the caller's `base or {}`)
YMergeDicts(b, l, r, path, rev) ==
  LET keys == SelectSeq(Walk(KeyUniverse, rev),
                        LAMBDA k : HasKey(l, k) \/ HasKey(r, k))
      acc == YMergeKeys(b, l, r, path, keys,
                        [kv |-> <<>>, conf |-> <<>>, err |-> FALSE], rev)
  IN IF acc.err THEN Raise
     ELSE [val |-> Mp(acc.kv), conf |-> acc.conf, err |-> FALSE]

\* the loop body of YAMLMerger._merge_named_lists for the names still to do
YMergeNames(bBy, lBy, rBy, path, names, acc, rev) ==
  IF names = <<>> \/ acc.err THEN acc
  ELSE
    LET nm == Head(names)
        bi == IF InByName(bBy, nm) THEN AtName(bBy, nm) ELSE Mp(<<>>)
        li == IF InByName(lBy, nm) THEN AtName(lBy, nm) ELSE Null
        ri == IF InByName(rBy, nm) THEN AtName(rBy, nm) ELSE Null
        step ==
          IF Truthy(li) /\ Truthy(ri)
          THEN LET m == YDeepMerge(bi, li, ri, Append(path, SelSeg(nm)), rev)
               IN [items |-> Append(acc.items, m.val),
                   conf |-> acc.conf \o m.conf,
                   err |-> m.err]
          ELSE IF Truthy(li)
          THEN [acc EXCEPT !.items = Append(acc.items, li)]
          ELSE [acc EXCEPT !.items = Append(acc.items, ri)]
    IN YMergeNames(bBy, lBy, rBy, path, Tail(names), step, rev)

\* YAMLMerger._merge_named_lists (b is the caller's `base or []`)
YMergeNamedLists(b, l, r, path, rev) ==
  IF b.t = "int" THEN Raise  \* iterating an int
  ELSE IF (IsList(b) /\ Unhashable(b.items))
          \/ Unhashable(l.items) \/ Unhashable(r.items) THEN Raise
  ELSE
    LET bBy == IF IsList(b) THEN ByName(b.items) ELSE <<>>
        lBy == ByName(l.items)
        rBy == ByName(r.items)
        names == SelectSeq(Walk(NameUniverse, rev),
                           LAMBDA n : n \in NamesIn(lBy) \cup NamesIn(rBy))
        acc == YMergeNames(bBy, lBy, rBy, path, names,
                           [items |-> <<>>, conf |-> <<>>, err |-> FALSE], rev)
    IN IF acc.err THEN Raise
       ELSE [val |-> Lst(acc.items), conf |-> acc.conf, err |-> FALSE]

\* YAMLMerger._merge_lists (b is the caller's `base or []`)
YMergeLists(b, l, r, path, rev) ==
  IF IsNamedList(l) \/ IsNamedList(r)
  THEN YMergeNamedLists(b, l, r, path, rev)
  ELSE IF ~Eq(l, b) /\ ~Eq(r, b) /\ ~Eq(l, r)
  THEN [val |-> l, conf |-> <<MergeConflict(path, b, l, r)>>, err |-> FALSE]
  ELSE IF ~Eq(l, b) THEN Ret(l)
  ELSE Ret(r)

\* the three-way rule YAMLMerger._deep_merge applies to scalars and to
\* values of different types
YScalarRule(b, l, r, path) ==
  IF Eq(b, l) THEN Ret(r)
  ELSE IF Eq(b, r) THEN Ret(l)
  ELSE [val |-> l, conf |-> <<MergeConflict(path, b, l, r)>>, err |-> FALSE]

\* YAMLMerger._deep_merge
YDeepMerge(b, l, r, path, rev) ==
  IF Eq(l, r) THEN Ret(l)
  ELSE IF l.t # r.t THEN YScalarRule(b, l, r, path)
  ELSE IF IsMap(l) /\ IsMap(r)
  THEN YMergeDicts(IF Truthy(b) THEN b ELSE Mp(<<>>), l, r, path, rev)
  ELSE IF IsList(l) /\ IsList(r)
  THEN YMergeLists(IF Truthy(b) THEN b ELSE Lst(<<>>), l, r, path, rev)
  ELSE YScalarRule(b, l, r, path)

\* YAMLMerger.merge
YAMLMerge(b, l, r, rev) == YDeepMerge(b, l, r, <<>>, rev)

(***************************************************************************)
(* HelmTemplateMerger.  A text is [t |-> "str", s |-> units]: a sequence   *)
(* of units, each a directive "{{...}}" without a "}" inside, a static     *)
(* character, or a blank.                                                  *)
(***************************************************************************)
Str(units) == [t |-> "str", s |-> units]

\* the matches of the pattern ({{[^}]*}})
Directives == {"{{a}}", "{{b}}"}

\* a character str.strip() removes
Blank == " "

\* the static part before a directive or at the end of the text: one
\* block, unless part.strip() is empty
Flush(run, blocks) ==
  IF \A i \in 1..Len(run) : run[i] = Blank THEN blocks
  ELSE Append(blocks, [kind |-> "static", text |-> run])

RECURSIVE Split(_, _, _)
\* re.split and the loop of extract_blocks over the units still to read;
\* run is the static part read so far
Split(units, run, blocks) ==
  IF units = <<>> THEN Flush(run, blocks)
  ELSE IF Head(units) \in Directives
  THEN Split(Tail(units), <<>>,
             Append(Flush(run, blocks),
                    [kind |-> "template", text |-> <<Head(units)>>]))
  ELSE Split(Tail(units), Append(run, Head(units)), blocks)

\* extract_blocks
ExtractBlocks(text) == Split(text.s, <<>>, <<>>)

\* the f-string of the conflict marker: {{ and }} are written as { and }
MarkStart ==
  "\n{- /* MERGE CONFLICT START */ -}\n{- /* LOCAL VERSION: */ -}\n"

MarkRemote == "\n{- /* REMOTE VERSION: */ -}\n"

MarkEnd == "\n{- /* MERGE CONFLICT END */ -}"

\* the path of the conflict of block i
BlockPath(i) == "block_" \o ToString(i)

\* the number of triples zip(base_blocks, local_blocks, remote_blocks)
\* yields: zip stops at the shortest
ZipLen(bb, lb, rb) ==
  LET m == IF Len(lb) < Len(rb) THEN Len(lb) ELSE Len(rb)
  IN IF Len(bb) < m THEN Len(bb) ELSE m

\* the body of the loop over the blocks: the entry appended to merged and
\* the conflicts appended, for index i (from 0)
BlockRule(i, bblock, lblock, rblock) ==
  IF lblock = rblock THEN [entry |-> lblock.text, conf |-> <<>>]
  ELSE IF lblock = bblock THEN [entry |-> rblock.text, conf |-> <<>>]
  ELSE IF rblock = bblock THEN [entry |-> lblock.text, conf |-> <<>>]
  ELSE [entry |-> <<MarkStart>> \o lblock.text \o <<MarkRemote>>
                    \o rblock.text \o <<MarkEnd>>,
        conf |-> <<MergeConflict(BlockPath(i), Str(bblock.text),
                                 Str(lblock.text), Str(rblock.text))>>]

RECURSIVE Join(_)
\* ''.join(merged)
Join(entries) ==
  IF entries = <<>> THEN <<>> ELSE Head(entries) \o Join(Tail(entries))

\* a merger that returns the local blocks joined instead of the local text
DivergedRejoined(b, l, r) ==
  [val |-> Str(Join([i \in 1..Len(ExtractBlocks(l)) |->
                       ExtractBlocks(l)[i].text])),
   conf |-> <<MergeConflict("entire_file", b, l, r)>>,
   err |-> FALSE]

\* the else branch: the structures differ
Diverged(b, l, r) ==
  [val |-> l, conf |-> <<MergeConflict("entire_file", b, l, r)>>,
   err |-> FALSE]

RECURSIVE MergeBlocks(_, _, _, _, _)
\* the loop over the zipped blocks from triple i on (from 1); acc is
\* [entries, conf]
MergeBlocks(bb, lb, rb, i, acc) ==
  IF i > ZipLen(bb, lb, rb) THEN acc
  ELSE LET o == BlockRule(i - 1, bb[i], lb[i], rb[i])
       IN MergeBlocks(bb, lb, rb, i + 1,
                      [entries |-> Append(acc.entries, o.entry),
                       conf |-> acc.conf \o o.conf])

\* HelmTemplateMerger.merge_template
MergeTemplate(b, l, r) ==
  LET bb == ExtractBlocks(b)
      lb == ExtractBlocks(l)
      rb == ExtractBlocks(r)
  IN IF Len(lb) = Len(rb)
     THEN LET m == MergeBlocks(bb, lb, rb, 1,
                               [entries |-> <<>>, conf |-> <<>>])
          IN [val |-> Str(Join(m.entries)), conf |-> m.conf, err |-> FALSE]
     ELSE Diverged(b, l, r)

(***************************************************************************)
(* The inputs of a merge: bounded families of (base, local, remote).       *)
(***************************************************************************)
Ints == {Sc(n) : n \in 0..MaxScalar}

Scalars == {Null} \cup Ints

\* the sequences of at most two elements of S
SeqsUpTo2(S) ==
  {<<>>} \cup {<<x>> : x \in S} \cup {<<x, y>> : x \in S, y \in S}

\* the ordered mappings of at most two of the keys K to values of V
MapsUpTo2(K, V) ==
  {Mp(<<>>)}
    \cup {Mp(<< <<k, v>> >>) : k \in K, v \in V}
    \cup {Mp(<< <<p[1], v>>, <<p[2], w>> >>) :
            p \in {q \in K \X K : q[1] # q[2]}, v \in V, w \in V}

\* the ordered mappings of any of the keys K to the one value v
RECURSIVE OrderedMaps(_, _)
OrderedMaps(K, v) ==
  {Mp(<<>>)}
    \cup UNION {{Mp(<< <<k, v>> >> \o m.kv) : m \in OrderedMaps(K \ {k}, v)} :
                 k \in K}

FlatMaps == MapsUpTo2({"a", "b"}, Scalars)

PosLists == {Lst(s) : s \in SeqsUpTo2(Ints)}

\* a named-list item
NItem(n, v) == Mp(<< <<"name", Sc(n)>>, <<"a", Sc(v)>> >>)

\* values of every type, to stand where another type is expected
Atoms ==
  Scalars \cup {Mp(<<>>), Mp(<< <<"a", Sc(1)>> >>), Lst(<<>>),
                Lst(<<Sc(1)>>), Lst(<<NItem(1, 1)>>)}

Inner ==
  Scalars \cup MapsUpTo2({"b"}, Scalars) \cup {Lst(<<>>), Lst(<<Sc(1)>>)}

Nested == {Mp(<< <<"a", x>> >>) : x \in Inner}

\* items that differ in the merged field: the falsy name and a truthy one
MergeItems == {NItem(n, v) : n \in {0, 1}, v \in 0..MaxScalar}

\* items that differ in the name only, and items that carry no usable name
OrderItems ==
  {NItem(n, 1) : n \in 0..MaxName}
    \cup {Sc(1), Mp(<< <<"a", Sc(1)>> >>),
          Mp(<< <<"name", Null>>, <<"a", Sc(1)>> >>)}

NamedMergeLists == {Lst(s) : s \in SeqsUpTo2(MergeItems)}

NamedOrderLists == {Lst(s) : s \in SeqsUpTo2(OrderItems)}

\* the families of inputs: (base, local, remote) is drawn from one of them
InAtoms == base \in Atoms /\ local \in Atoms /\ remote \in Atoms

InFlatMaps ==
  /\ base \in FlatMaps \cup {Null, Sc(1), Lst(<<Sc(1)>>)}
  /\ local \in FlatMaps
  /\ remote \in FlatMaps

InNested == base \in Nested /\ local \in Nested /\ remote \in Nested

InOrderedMaps ==
  /\ base \in {Null, Mp(<<>>), Mp(<< <<"a", Sc(0)>>, <<"c", Sc(0)>> >>)}
  /\ local \in OrderedMaps({"a", "b", "c", "d"}, Sc(0))
  /\ remote \in OrderedMaps({"a", "b", "c", "d"}, Sc(1))

InPosLists ==
  /\ base \in PosLists \cup {Null, Sc(1), Mp(<< <<"a", Sc(1)>> >>)}
  /\ local \in PosLists
  /\ remote \in PosLists

InNamedMerge ==
  /\ base \in {Null} \cup NamedMergeLists
  /\ local \in NamedMergeLists
  /\ remote \in NamedMergeLists

InNamedOrder ==
  /\ base \in {Null, Lst(<<>>), Lst(<<NItem(1, 1)>>)}
  /\ local \in NamedOrderLists
  /\ remote \in NamedOrderLists

Inputs ==
  \/ InAtoms
  \/ InFlatMaps
  \/ InNested
  \/ InOrderedMaps
  \/ InPosLists
  \/ InNamedMerge
  \/ InNamedOrder

(***************************************************************************)
(* The merge as a state machine: the inputs are drawn, then one of the     *)
(* entry points runs on them.                                              *)
(***************************************************************************)
\* the entries of the element directory the upgrade touches
Files ==
  {"values", "converters", "chart", "templates", "examples", "snapshot",
   "report"}

\* a directory that does not exist
NoDir == [f \in Files |-> "nodir"]

\* no upgrade is running
UpgradeIdle ==
  /\ elem = NoDir
  /\ backup = NoDir
  /\ conf = <<>>
  /\ autoResolve = FALSE
  /\ remoteHas = {}
  /\ upc = "idle"
  /\ failedAt = "none"
  /\ backup0 = NoDir
  /\ saved = NoDir
  /\ dryRun = FALSE
  /\ tmpRemote = "none"
  /\ tmpBase = "none"
  /\ mergedValues = <<>>

Init ==
  /\ Inputs
  /\ pc = "start"
  /\ merged = Null
  /\ conflicts = <<>>
  /\ raised = FALSE
  /\ UpgradeIdle

\* PreservingYAMLMerger.merge(base, local, remote)
Merge ==
  /\ pc = "start"
  /\ LET m == PreservingMerge(base, local, remote)
     IN /\ merged' = m.val
        /\ conflicts' = m.conf
        /\ raised' = m.err
  /\ pc' = "merged"
  /\ UNCHANGED <<base, local, remote, upgradeVars>>

\* YAMLMerger.merge(base, local, remote)
MergeYAML ==
  /\ pc = "start"
  /\ \E rev \in BOOLEAN :
       LET m == YAMLMerge(base, local, remote, rev)
       IN /\ merged' = m.val
          /\ conflicts' = m.conf
          /\ raised' = m.err
  /\ pc' = "ymerged"
  /\ UNCHANGED <<base, local, remote, upgradeVars>>

\* MergeConflict(path, base, local, remote)
NewConflict ==
  /\ pc = "start"
  /\ conflicts' = <<MergeConflict(<<>>, base, local, remote)>>
  /\ pc' = "conflict"
  /\ UNCHANGED <<base, local, remote, merged, raised, upgradeVars>>

Next == Merge \/ MergeYAML \/ NewConflict

Spec == Init /\ [][Next]_vars

\* the texts of at most MaxText units
Texts ==
  {Str(u) : u \in UNION {[1..n -> Directives \cup {"x", Blank}] :
                           n \in 0..MaxText}}

TemplateInit ==
  /\ base \in Texts
  /\ local \in Texts
  /\ remote \in Texts
  /\ pc = "tstart"
  /\ merged = Null
  /\ conflicts = <<>>
  /\ raised = FALSE
  /\ UpgradeIdle

\* HelmTemplateMerger.merge_template(base, local, remote)
MergeTemplateFile ==
  /\ pc = "tstart"
  /\ LET m == MergeTemplate(base, local, remote)
     IN /\ merged' = m.val
        /\ conflicts' = m.conf
        /\ raised' = m.err
  /\ pc' = "tmerged"
  /\ UNCHANGED <<base, local, remote, upgradeVars>>

TemplateNext == MergeTemplateFile

SpecTemplate == TemplateInit /\ [][TemplateNext]_vars

(***************************************************************************)
(* Inputs that carry comments: mappings loaded from commented YAML.  The   *)
(* text of a comment tells the file it was read from.                      *)
(***************************************************************************)
\* the comment sets a file can attach to the keys K
Commented(K, text) == {{<<k, text>> : k \in cs} : cs \in SUBSET K}

\* a flat mapping over the keys a, b with comments on some of its keys
FlatCommented(text) ==
  UNION {{MpC(m.kv, ca) : ca \in Commented(KeySet(m), text)} :
           m \in MapsUpTo2({"a", "b"}, Ints)}

\* a mapping nested under a key, or a one-item named list under it
InnerCommented(text) ==
  {MpC(<< <<"b", Sc(v)>> >>, ca) :
     v \in 0..MaxScalar, ca \in Commented({"b"}, text)}

ItemCommented(text) ==
  {Lst(<< MpC(<< <<"name", Sc(1)>>, <<"a", Sc(v)>> >>, ca) >>) :
     v \in 0..MaxScalar, ca \in Commented({"a"}, text)}

NestedCommented(text) ==
  {MpC(<< <<"a", x>> >>, ca) :
     x \in InnerCommented(text) \cup ItemCommented(text),
     ca \in Commented({"a"}, text)}

CommentBases ==
  {Null, Mp(<<>>), Mp(<< <<"a", Sc(0)>> >>),
   Mp(<< <<"a", Mp(<< <<"b", Sc(0)>> >>)>> >>),
   Mp(<< <<"a", Lst(<< NItem(1, 0) >>)>> >>)}

CommentInit ==
  /\ base \in CommentBases
  /\ \/ local \in FlatCommented("# local") /\ remote \in FlatCommented("# remote")
     \/ local \in NestedCommented("# local") /\ remote \in NestedCommented("# remote")
  /\ pc = "start"
  /\ merged = Null
  /\ conflicts = <<>>
  /\ raised = FALSE
  /\ UpgradeIdle

CommentNext == Merge

SpecComments == CommentInit /\ [][CommentNext]_vars

(***************************************************************************)
(* The upgrade command and TemplateUpgrader.apply_merged_files.  A         *)
(* directory is a function from the entries the upgrade touches to what    *)
(* each holds: "absent", "local" (as the user left it), "captured" (a      *)
(* snapshot taken of the current tree), "merged", "remote", "new", "empty" *)
(* (a directory mkdir created), "partial" (a write or copy that was cut    *)
(* short) or "stale" (left by an earlier, interrupted upgrade).            *)
(* A temporary directory is "none" (not created), "dir" (it exists) or     *)
(* "removed"; the base path is "element" when the element directory        *)
(* stands in for the base version, "leaked" when it does and the failed    *)
(* download left its temporary directory.                                  *)
(* The values conflicts are the sequence of their resolutions:             *)
(* "keep_local", "take_remote" or "none"; mergedValues tells, for each     *)
(* conflict, whether the merged values hold the merger's "tentative" value *)
(* or the "remote" value at its path.                                      *)
(***************************************************************************)
\* what the downloaded target version may carry besides values.yaml
RemoteParts == {"converters", "chart", "templates", "examples"}

\* the element directory before the upgrade: values.yaml and the baseline
\* snapshot are there, the rest may be missing
ElementDirs ==
  {[f \in Files |->
      CASE f \in {"values", "snapshot"} -> "local"
        [] f = "report" -> "absent"
        [] OTHER -> IF f \in present THEN "local" ELSE "absent"] :
     present \in SUBSET {"converters", "chart", "templates", "examples"}}

\* an element directory may also lack its baseline snapshot
InstalledDirs ==
  ElementDirs \cup {[d EXCEPT !["snapshot"] = "absent"] : d \in ElementDirs}

\* the backup directory an interrupted upgrade left behind
StaleDir ==
  [f \in Files |-> IF f \in {"values", "chart", "snapshot"}
                   THEN "stale" ELSE "absent"]

\* no merge is running
MergeIdle ==
  /\ base = Null
  /\ local = Null
  /\ remote = Null
  /\ pc = "idle"
  /\ merged = Null
  /\ conflicts = <<>>
  /\ raised = FALSE

\* the command is entered with its options and an element directory
UpgradeInit ==
  /\ MergeIdle
  /\ elem \in InstalledDirs
  /\ backup \in {NoDir, StaleDir}
  /\ conf = <<>>
  /\ autoResolve \in BOOLEAN
  /\ dryRun \in BOOLEAN
  /\ remoteHas \in SUBSET RemoteParts
  /\ upc = "baseline"
  /\ failedAt = "none"
  /\ backup0 = backup
  /\ saved = NoDir
  /\ tmpRemote = "none"
  /\ tmpBase = "none"
  /\ mergedValues = <<>>

\* the resolutions a MergeConflict leaves its constructor with
Resolutions == {"keep_local", "take_remote", "none"}

\* the values conflicts a merge may report
ConflictLists == UNION {[1..n -> Resolutions] : n \in 0..MaxConflicts}

\* what resolve_interactively may hand back: a conflict that has a
\* resolution keeps it, one that has none gets one or is left as it is
ResolvedLists(c) ==
  {d \in [1..Len(c) -> Resolutions] :
     \A i \in 1..Len(c) : c[i] # "none" => d[i] = c[i]}

\* ChangeDetector.capture_baseline: the snapshot is taken and persisted
CaptureBaseline(dir) == [dir EXCEPT !["snapshot"] = "captured"]

\* ConflictMarkerGenerator.apply_resolution_to_values: take_remote writes
\* the remote value at the conflict's path, keep_local keeps what is there
ApplyResolutionToValues(values, cs) ==
  [i \in 1..Len(values) |->
     IF cs[i] = "take_remote" THEN "remote" ELSE values[i]]

\* the values_conflicts argument of the apply_merged_files call
PassedConflicts == IF autoResolve THEN <<>> ELSE conf

\* any(not c.resolution for c in values_conflicts)
AnyUnresolved(cs) == \E i \in 1..Len(cs) : cs[i] = "none"

\* an exception leaves get_and_upgrade
Propagate(step) ==
  /\ upc' = "failed"
  /\ failedAt' = step

\* an exception is raised inside the try block of apply_merged_files
Caught(step) ==
  /\ upc' = "except"
  /\ failedAt' = step

\* the baseline snapshot is loaded; a missing one is captured from the
\* current tree
LoadBaseline ==
  /\ upc = "baseline"
  /\ elem' = IF elem["snapshot"] = "absent" THEN CaptureBaseline(elem)
             ELSE elem
  /\ upc' = "plan"
  /\ UNCHANGED <<mergeVars, backup, conf, autoResolve, remoteHas, failedAt,
                 backup0, saved, dryRun, tmpRemote, tmpBase, mergedValues>>

\* the template, the target version and the upgrade path are looked up
PlanUpgrade ==
  /\ upc = "plan"
  /\ \/ /\ upc' = "dry_run"
        /\ UNCHANGED failedAt
     \/ Propagate("plan")
  /\ UNCHANGED <<mergeVars, elem, backup, conf, autoResolve, remoteHas,
                 backup0, saved, dryRun, tmpRemote, tmpBase, mergedValues>>

\* with --dry-run the plan is printed and the command returns
DryRun ==
  /\ upc = "dry_run"
  /\ upc' = IF dryRun THEN "returned" ELSE "confirm"
  /\ UNCHANGED <<mergeVars, elem, backup, conf, autoResolve, remoteHas,
                 failedAt, backup0, saved, dryRun, tmpRemote, tmpBase,
                 mergedValues>>

\* the user confirms the upgrade or cancels it
ConfirmUpgrade ==
  /\ upc = "confirm"
  /\ upc' \in {"download_remote", "returned"}
  /\ UNCHANGED <<mergeVars, elem, backup, conf, autoResolve, remoteHas,
                 failedAt, backup0, saved, dryRun, tmpRemote, tmpBase,
                 mergedValues>>

\* Step 1: download_version of the target version; a failure before
\* mkdtemp or of the git fetch leaves no directory, a failure of the copy
\* leaves the temporary directory
DownloadRemote ==
  /\ upc = "download_remote"
  /\ \/ /\ tmpRemote' = "dir"
        /\ upc' = "download_base"
        /\ UNCHANGED failedAt
     \/ /\ tmpRemote' \in {"none", "dir"}
        /\ Propagate("download_remote")
  /\ UNCHANGED <<mergeVars, elem, backup, conf, autoResolve, remoteHas,
                 backup0, saved, dryRun, tmpBase, mergedValues>>

\* Step 2: download_version of the base version; when it fails the element
\* directory is the base, and a failure of the copy leaves the temporary
\* directory behind ("leaked")
DownloadBase ==
  /\ upc = "download_base"
  /\ tmpBase' \in {"dir", "element", "leaked"}
  /\ upc' = "merge"
  /\ UNCHANGED <<mergeVars, elem, backup, conf, autoResolve, remoteHas,
                 failedAt, backup0, saved, dryRun, tmpRemote, mergedValues>>

\* Step 3: values.yaml and the converters are merged
MergeFiles ==
  /\ upc = "merge"
  /\ \/ /\ conf' \in ConflictLists
        /\ mergedValues' = [i \in 1..Len(conf') |-> "tentative"]
        /\ upc' = "handle_conflicts"
        /\ UNCHANGED failedAt
     \/ /\ Propagate("merge")
        /\ UNCHANGED <<conf, mergedValues>>
  /\ UNCHANGED <<mergeVars, elem, backup, autoResolve, remoteHas, backup0,
                 saved, dryRun, tmpRemote, tmpBase>>

\* Step 4: the resolver is asked, unless --auto-resolve was given and
\* every conflict has a resolution
ResolveConflicts ==
  /\ upc = "handle_conflicts"
  /\ \/ /\ conf = <<>>
        /\ upc' = "backup"
        /\ UNCHANGED <<conf, failedAt>>
     \/ /\ conf # <<>>
        /\ autoResolve /\ ~AnyUnresolved(conf)
        /\ upc' = "report"
        /\ UNCHANGED <<conf, failedAt>>
     \/ /\ conf # <<>>
        /\ ~autoResolve \/ AnyUnresolved(conf)
        /\ conf' \in ResolvedLists(conf)
        /\ upc' = "report"
        /\ UNCHANGED failedAt
     \/ /\ conf # <<>>
        /\ ~autoResolve \/ AnyUnresolved(conf)
        /\ Propagate("resolver")
        /\ UNCHANGED conf
  /\ UNCHANGED <<mergeVars, elem, backup, autoResolve, remoteHas, backup0,
                 saved, dryRun, tmpRemote, tmpBase, mergedValues>>

\* Step 4: the conflict report is saved under the element directory
SaveConflictReport ==
  /\ upc = "report"
  /\ \/ /\ elem' = [elem EXCEPT !["report"] = "new"]
        /\ upc' = "backup"
        /\ UNCHANGED failedAt
     \/ /\ elem' = [elem EXCEPT !["report"] = "partial"]
        /\ Propagate("report")
  /\ UNCHANGED <<mergeVars, backup, conf, autoResolve, remoteHas, backup0,
                 saved, dryRun, tmpRemote, tmpBase, mergedValues>>

\* apply_merged_files: an existing backup directory is removed, then the
\* element directory is copied to it
TakeBackup ==
  /\ upc = "backup"
  /\ \/ /\ backup' = elem
        /\ saved' = elem
        /\ upc' = "resolutions"
        /\ UNCHANGED failedAt
     \/ /\ backup' = NoDir
        /\ Propagate("backup")
        /\ UNCHANGED saved
  /\ UNCHANGED <<mergeVars, elem, conf, autoResolve, remoteHas, backup0,
                 dryRun, tmpRemote, tmpBase, mergedValues>>

\* the resolutions are applied to the merged values
ApplyResolutions ==
  /\ upc = "resolutions"
  /\ \/ /\ PassedConflicts = <<>>
        /\ upc' = "values"
        /\ UNCHANGED <<mergedValues, failedAt>>
     \/ /\ PassedConflicts # <<>>
        /\ mergedValues' =
             ApplyResolutionToValues(mergedValues, PassedConflicts)
        /\ upc' = "values"
        /\ UNCHANGED failedAt
     \/ /\ PassedConflicts # <<>>
        /\ Caught("resolutions")
        /\ UNCHANGED mergedValues
  /\ UNCHANGED <<mergeVars, elem, backup, conf, autoResolve, remoteHas,
                 backup0, saved, dryRun, tmpRemote, tmpBase>>

\* the merged values are written to values.yaml
WriteValues ==
  /\ upc = "values"
  /\ \/ /\ elem' = [elem EXCEPT !["values"] = "merged"]
        /\ upc' = "header"
        /\ UNCHANGED failedAt
     \/ /\ elem' = [elem EXCEPT !["values"] = "partial"]
        /\ Caught("values")
  /\ UNCHANGED <<mergeVars, backup, conf, autoResolve, remoteHas, backup0,
                 saved, dryRun, tmpRemote, tmpBase, mergedValues>>

\* the conflict header: building it reads baseline.version and
\* target_version, names apply_merged_files does not have, so it raises
\* NameError whenever a conflict carries no resolution
WriteHeader ==
  /\ upc = "header"
  /\ \/ /\ ~AnyUnresolved(PassedConflicts)
        /\ upc' = "converters"
        /\ UNCHANGED failedAt
     \/ /\ AnyUnresolved(PassedConflicts)
        /\ Caught("header")
  /\ UNCHANGED <<mergeVars, elem, backup, conf, autoResolve, remoteHas,
                 backup0, saved, dryRun, tmpRemote, tmpBase, mergedValues>>

\* converters/ is created, the merged converters are written and the
\* converters only remote has are copied
WriteConverters ==
  /\ upc = "converters"
  /\ \/ /\ elem' = [elem EXCEPT !["converters"] =
                      IF elem["converters"] = "local" THEN "merged"
                      ELSE IF "converters" \in remoteHas THEN "remote"
                      ELSE "empty"]
        /\ upc' = "chart"
        /\ UNCHANGED failedAt
     \/ /\ elem' = [elem EXCEPT !["converters"] = "partial"]
        /\ Caught("converters")
  /\ UNCHANGED <<mergeVars, backup, conf, autoResolve, remoteHas, backup0,
                 saved, dryRun, tmpRemote, tmpBase, mergedValues>>

\* Chart.yaml is taken from remote with the local name; reading a local
\* Chart.yaml that is not there raises
UpdateChart ==
  /\ upc = "chart"
  /\ \/ /\ "chart" \notin remoteHas
        /\ upc' = "templates"
        /\ UNCHANGED <<elem, failedAt>>
     \/ /\ "chart" \in remoteHas
        /\ elem["chart"] # "absent"
        /\ elem' = [elem EXCEPT !["chart"] = "remote"]
        /\ upc' = "templates"
        /\ UNCHANGED failedAt
     \/ /\ "chart" \in remoteHas
        /\ elem["chart"] # "absent"
        /\ elem' = [elem EXCEPT !["chart"] = "partial"]
        /\ Caught("chart")
     \/ /\ "chart" \in remoteHas
        /\ elem["chart"] = "absent"
        /\ Caught("chart")
        /\ UNCHANGED elem
  /\ UNCHANGED <<mergeVars, backup, conf, autoResolve, remoteHas, backup0,
                 saved, dryRun, tmpRemote, tmpBase, mergedValues>>

\* a directory of the element is replaced by remote's
Replace(dir, step, next) ==
  \/ /\ dir \notin remoteHas
     /\ upc' = next
     /\ UNCHANGED <<elem, failedAt>>
  \/ /\ dir \in remoteHas
     /\ elem' = [elem EXCEPT ![dir] = "remote"]
     /\ upc' = next
     /\ UNCHANGED failedAt
  \/ /\ dir \in remoteHas
     /\ \E left \in {"absent", "partial"} :
           elem' = [elem EXCEPT ![dir] = left]
     /\ Caught(step)

\* templates/ is replaced by remote's
CopyTemplates ==
  /\ upc = "templates"
  /\ Replace("templates", "templates", "examples")
  /\ UNCHANGED <<mergeVars, backup, conf, autoResolve, remoteHas, backup0,
                 saved, dryRun, tmpRemote, tmpBase, mergedValues>>

\* examples/ is replaced by remote's
CopyExamples ==
  /\ upc = "examples"
  /\ Replace("examples", "examples", "remove_backup")
  /\ UNCHANGED <<mergeVars, backup, conf, autoResolve, remoteHas, backup0,
                 saved, dryRun, tmpRemote, tmpBase, mergedValues>>

\* the backup is removed; a removal that fails may have removed part of it
RemoveBackup ==
  /\ upc = "remove_backup"
  /\ \/ /\ backup' = NoDir
        /\ upc' = "snapshot"
        /\ UNCHANGED failedAt
     \/ /\ backup' \in {backup, [backup EXCEPT !["values"] = "absent"]}
        /\ Caught("remove_backup")
  /\ UNCHANGED <<mergeVars, elem, conf, autoResolve, remoteHas, backup0,
                 saved, dryRun, tmpRemote, tmpBase, mergedValues>>

\* the except clause: the element directory is removed, the backup is
\* moved into its place and the exception is raised again
Rollback ==
  /\ upc = "except"
  /\ elem' = backup
  /\ backup' = NoDir
  /\ upc' = "failed"
  /\ UNCHANGED <<mergeVars, conf, autoResolve, remoteHas, failedAt, backup0,
                 saved, dryRun, tmpRemote, tmpBase, mergedValues>>

\* back in get_and_upgrade: the baseline snapshot is replaced
SaveSnapshot ==
  /\ upc = "snapshot"
  /\ \/ /\ elem' = [elem EXCEPT !["snapshot"] = "new"]
        /\ upc' = "cleanup"
        /\ UNCHANGED failedAt
     \/ /\ \E left \in {elem["snapshot"], "partial"} :
              elem' = [elem EXCEPT !["snapshot"] = left]
        /\ Propagate("snapshot")
  /\ UNCHANGED <<mergeVars, backup, conf, autoResolve, remoteHas, backup0,
                 saved, dryRun, tmpRemote, tmpBase, mergedValues>>

\* the downloaded versions are removed, but not the element directory, and
\* the command reports success
Cleanup ==
  /\ upc = "cleanup"
  /\ tmpRemote' = "removed"
  /\ tmpBase' = IF tmpBase = "dir" THEN "removed" ELSE tmpBase
  /\ upc' = "done"
  /\ UNCHANGED <<mergeVars, elem, backup, conf, autoResolve, remoteHas,
                 failedAt, backup0, saved, dryRun, mergedValues>>

UpgradeNext ==
  \/ LoadBaseline
  \/ PlanUpgrade
  \/ DryRun
  \/ ConfirmUpgrade
  \/ DownloadRemote
  \/ DownloadBase
  \/ MergeFiles
  \/ ResolveConflicts
  \/ SaveConflictReport
  \/ TakeBackup
  \/ ApplyResolutions
  \/ WriteValues
  \/ WriteHeader
  \/ WriteConverters
  \/ UpdateChart
  \/ CopyTemplates
  \/ CopyExamples
  \/ RemoveBackup
  \/ Rollback
  \/ SaveSnapshot
  \/ Cleanup

SpecUpgrade == UpgradeInit /\ [][UpgradeNext]_vars

(***************************************************************************)
(* What the claims speak of.                                               *)
(***************************************************************************)
RECURSIVE At(_, _)
\* the value of a tree at a path of mapping keys
At(tree, path) ==
  IF path = <<>> THEN tree ELSE At(Get(tree, Head(path).key), Tail(path))

\* the conflicts reported at a path
ConflictsAt(path) == {i \in 1..Len(conflicts) : conflicts[i].path = path}

\* the base value handed down to key k: B[k], or null when B has no k
BaseAt(b, k) == IF IsMap(b) THEN GetOrNull(b, k) ELSE Null

RECURSIVE Nodes(_, _, _, _)
\* the (path, base, local, remote) nodes a merge visits through the keys
\* local and remote both have
Nodes(b, l, r, path) ==
  {[path |-> path, b |-> b, l |-> l, r |-> r]}
    \cup IF IsMap(l) /\ IsMap(r) /\ ~Eq(l, r)
         THEN UNION {Nodes(BaseAt(b, k), Get(l, k), Get(r, k),
                           Append(path, KeySeg(k))) :
                       k \in KeySet(l) \cap KeySet(r)}
         ELSE {}

\* the nodes where local and remote differ and are not both mappings and
\* not both sequences
ScalarNodes ==
  {n \in Nodes(base, local, remote, <<>>) :
     /\ ~Eq(n.l, n.r)
     /\ ~(IsMap(n.l) /\ IsMap(n.r))
     /\ ~(IsList(n.l) /\ IsList(n.r))}

\* the nodes where two differing mappings are merged
MapNodes ==
  {n \in Nodes(base, local, remote, <<>>) :
     IsMap(n.l) /\ IsMap(n.r) /\ ~Eq(n.l, n.r)}

Returned == pc = "merged" /\ ~raised

RECURSIVE KeepsKeys(_, _)
\* y differs from x only by added keys and changed values: no mapping of y
\* lacks a key x has there, and no named list is among their differences
KeepsKeys(x, y) ==
  IF Eq(x, y) THEN TRUE
  ELSE IF IsMap(x) /\ IsMap(y)
  THEN /\ KeySet(x) \subseteq KeySet(y)
       /\ \A k \in KeySet(x) : KeepsKeys(Get(x, k), Get(y, k))
  ELSE IF IsList(x) /\ IsList(y)
  THEN ~IsNamedList(x) /\ ~IsNamedList(y)
  ELSE TRUE

C1_NoOpLocalKeepsKeys ==
  (pc = "merged" /\ local = base /\ KeepsKeys(base, remote)) =>
    (~raised /\ Eq(merged, remote) /\ conflicts = <<>>)

\* C1 amended, the removed keys (scenario S5): a key B has and R removes is
\* kept with B's value and reported as one deletion conflict
C1_RemovedKeyKept ==
  (pc = "merged" /\ local = base /\ IsMap(base) /\ IsMap(remote)) =>
    \A k \in KeySet(base) \ KeySet(remote) :
      /\ ~raised
      /\ HasKey(merged, k)
      /\ Get(merged, k) = Get(base, k)
      /\ Cardinality(ConflictsAt(<<KeySeg(k)>>)) = 1
      /\ \A i \in ConflictsAt(<<KeySeg(k)>>) :
           /\ conflicts[i].base_value = Get(base, k)
           /\ conflicts[i].local_value = Get(base, k)
           /\ conflicts[i].remote_value = Null

C2_NoOpRemote ==
  (pc = "merged" /\ remote = base) =>
    (~raised /\ Eq(merged, local) /\ conflicts = <<>>)

\* the steps C3 lists: each runs after the backup copy was taken
StepsAfterBackup ==
  {"values", "header", "converters", "chart", "templates", "examples",
   "snapshot"}

\* C3 as stated: when one of the steps after the backup copy fails and the
\* error has left the command, the element directory holds what it held
\* when the backup copy was taken
C3_RollbackSafety ==
  (upc = "failed" /\ failedAt \in StepsAfterBackup) => elem = saved

\* where the command stands once apply_merged_files is past its backup step
PastBackupCheck ==
  {"resolutions", "values", "header", "converters", "chart", "templates",
   "examples", "remove_backup", "except", "snapshot", "cleanup", "done"}

\* C4 as stated: when the backup directory exists as the upgrade starts,
\* the apply stage goes no further than its check, and the backup directory
\* stays as it was
C4_LeftoverBackupRefusal ==
  (backup0 # NoDir) =>
    (backup = backup0 /\ upc \notin PastBackupCheck)

\* C5: where L # R and they are not both mappings and not both sequences,
\* the merger returns R without a conflict when B = L, L without a conflict
\* when B = R, and otherwise L with exactly one conflict (path, B, L, R);
\* so a scalar leaf with three distinct values has exactly one conflict
C5_ScalarRule ==
  Returned =>
    \A n \in ScalarNodes :
      LET at == ConflictsAt(n.path)
      IN IF Eq(n.b, n.l)
         THEN At(merged, n.path) = n.r /\ at = {}
         ELSE IF Eq(n.b, n.r)
         THEN At(merged, n.path) = n.l /\ at = {}
         ELSE /\ At(merged, n.path) = n.l
              /\ Cardinality(at) = 1
              /\ \A i \in at :
                   /\ conflicts[i].base_value = n.b
                   /\ conflicts[i].local_value = n.l
                   /\ conflicts[i].remote_value = n.r

\* C5: at the top of the tree the rule never raises, whatever the base is
C5_ScalarRuleReturns ==
  (pc = "merged" /\ ~Eq(local, remote)
     /\ ~(IsMap(local) /\ IsMap(remote))
     /\ ~(IsList(local) /\ IsList(remote))) => ~raised

\* C5: both parts
C5_ScalarNodes == C5_ScalarRule /\ C5_ScalarRuleReturns

\* C5's case: a nested scalar leaf where base, local and remote are three
\* distinct values, and a conflict is reported there
C5_Witness ==
  /\ Returned
  /\ \E n \in ScalarNodes :
       /\ Len(n.path) > 0
       /\ {n.b.t, n.l.t, n.r.t} \subseteq {"null", "int"}
       /\ ~Eq(n.b, n.l) /\ ~Eq(n.b, n.r)
       /\ ConflictsAt(n.path) # {}

\* C6 as stated: a key k of R and B that L lacks is merged with R[k] and
\* reported as exactly one conflict (path.k, B[k], absent, R[k]), by both
\* mergers
C6_LocallyDeletedKey ==
  (pc \in {"merged", "ymerged"} /\ ~raised
     /\ IsMap(base) /\ IsMap(local) /\ IsMap(remote)) =>
    \A k \in (KeySet(remote) \cap KeySet(base)) \ KeySet(local) :
      /\ HasKey(merged, k)
      /\ Get(merged, k) = Get(remote, k)
      /\ Cardinality(ConflictsAt(<<KeySeg(k)>>)) = 1
      /\ \A i \in ConflictsAt(<<KeySeg(k)>>) :
           /\ conflicts[i].base_value = Get(base, k)
           /\ conflicts[i].local_value = Null
           /\ conflicts[i].remote_value = Get(remote, k)

\* C7: in a mapping merge a key k of L and B that R lacks keeps L[k] and is
\* reported as exactly one conflict (path.k, B[k], L[k], absent); a key only
\* L has, or only R has, that B lacks is merged without a conflict
C7_RemotelyDeletedKey ==
  Returned =>
    \A n \in MapNodes :
      LET m == At(merged, n.path)
          kp(k) == Append(n.path, KeySeg(k))
      IN /\ \A k \in KeySet(n.l) \ KeySet(n.r) :
              /\ HasKey(m, k)
              /\ Get(m, k) = Get(n.l, k)
              /\ IF IsMap(n.b) /\ HasKey(n.b, k)
                 THEN /\ Cardinality(ConflictsAt(kp(k))) = 1
                      /\ \A i \in ConflictsAt(kp(k)) :
                           /\ conflicts[i].base_value = Get(n.b, k)
                           /\ conflicts[i].local_value = Get(n.l, k)
                           /\ conflicts[i].remote_value = Null
                 ELSE ConflictsAt(kp(k)) = {}
         /\ \A k \in KeySet(n.r) \ KeySet(n.l) :
              ~(IsMap(n.b) /\ HasKey(n.b, k)) =>
                /\ HasKey(m, k)
                /\ Get(m, k) = Get(n.r, k)
                /\ ConflictsAt(kp(k)) = {}

\* C7's case: below the top, R lacks a key that L and B have, and the
\* deletion is reported
C7_Witness ==
  /\ Returned
  /\ \E n \in MapNodes :
       /\ Len(n.path) > 0
       /\ IsMap(n.b)
       /\ \E k \in (KeySet(n.l) \cap KeySet(n.b)) \ KeySet(n.r) :
            ConflictsAt(Append(n.path, KeySeg(k))) # {}

\* C8: the keys of a merged mapping are the keys of L in L's order, then the
\* keys of R that L lacks in R's order; so the merged keys that L has are in
\* L's order
C8_KeyOrder ==
  Returned =>
    \A n \in Nodes(base, local, remote, <<>>) :
      (IsMap(n.l) /\ IsMap(n.r)) =>
        LET m == At(merged, n.path)
        IN /\ IsMap(m)
           /\ KeysOf(m) =
                KeysOf(n.l)
                  \o SelectSeq(KeysOf(n.r), LAMBDA k : k \notin KeySet(n.l))
           /\ SelectSeq(KeysOf(m), LAMBDA k : k \in KeySet(n.l)) = KeysOf(n.l)

\* C8's case: L has two keys out of alphabetical order and R brings two
\* more, also out of order
C8_Witness ==
  /\ Returned
  /\ IsMap(local) /\ IsMap(remote) /\ IsMap(merged)
  /\ KeysOf(local) = <<"b", "a">>
  /\ KeysOf(remote) = <<"d", "c", "a">>
  /\ KeysOf(merged) = <<"b", "a", "d", "c">>

\* the names a sequence lists: the name of each mapping item that has one
Names(lst) ==
  LET named == SelectSeq(lst.items, LAMBDA x : IsMap(x) /\ HasKey(x, "name"))
  IN [i \in 1..Len(named) |-> Get(named[i], "name")]

RECURSIVE Distinct(_)
\* a sequence without its repetitions, in order of first occurrence
Distinct(s) ==
  IF s = <<>> THEN <<>>
  ELSE LET d == Distinct(SubSeq(s, 1, Len(s) - 1))
       IN IF \E i \in 1..Len(d) : d[i] = s[Len(s)] THEN d
          ELSE Append(d, s[Len(s)])

Range(s) == {s[i] : i \in 1..Len(s)}

\* the items of a sequence that carry one of the names
ItemsNamed(lst, names) ==
  SelectSeq(lst.items,
            LAMBDA x : IsMap(x) /\ HasKey(x, "name") /\ Get(x, "name") \in names)

\* C9 as stated: when L or R is a named list the merged sequence lists the
\* names of L in L's order, then the names only R has in R's order; the item
\* of a name both have is the three-way merge of the items with that name;
\* and permuting the items only R has keeps the local items in their order
C9_NamedListMerge ==
  (Returned /\ IsList(base) /\ IsList(local) /\ IsList(remote)
     /\ ~Eq(local, remote)
     /\ (IsNamedList(local) \/ IsNamedList(remote))) =>
    LET ln == Names(local)
        rn == Names(remote)
        rOnly == SelectSeq(rn, LAMBDA n : n \notin Range(ln))
        swapped == Lst(Reverse(remote.items))
    IN /\ IsList(merged)
       /\ Distinct(Names(merged)) = Distinct(ln \o rOnly)
       /\ \A n \in Range(ln) \cap Range(rn) :
            (Len(ItemsNamed(local, {n})) = 1
               /\ Len(ItemsNamed(remote, {n})) = 1) =>
              \E i \in 1..Len(merged.items) :
                merged.items[i] =
                  DeepMerge(IF Len(ItemsNamed(base, {n})) > 0
                            THEN ItemsNamed(base, {n})[1] ELSE Mp(<<>>),
                            ItemsNamed(local, {n})[1],
                            ItemsNamed(remote, {n})[1], <<>>).val
       /\ (Len(rOnly) = Len(remote.items)) =>
            ItemsNamed(PreservingMerge(base, local, swapped).val, Range(ln))
              = ItemsNamed(merged, Range(ln))

\* C10 as stated: a conflict is KeepLocal and auto-resolvable exactly when
\* base = remote and local # remote, TakeRemote and auto-resolvable exactly
\* when base = local and remote # local, and otherwise unresolved and not
\* auto-resolvable; auto_resolvable is true exactly when a resolution is set
C10_AutoResolution ==
  \A i \in 1..Len(conflicts) :
    LET c == conflicts[i]
        b == c.base_value
        l == c.local_value
        r == c.remote_value
    IN /\ (c.resolution = "keep_local" /\ c.auto_resolvable)
            <=> (Eq(b, r) /\ ~Eq(l, r))
       /\ (c.resolution = "take_remote" /\ c.auto_resolvable)
            <=> (Eq(b, l) /\ ~Eq(r, l))
       /\ (~(Eq(b, r) /\ ~Eq(l, r)) /\ ~(Eq(b, l) /\ ~Eq(r, l)))
            => (~c.auto_resolvable /\ c.resolution = "none")
       /\ c.auto_resolvable <=> (c.resolution # "none")

\* the blocks of the three texts of a template merge
BaseBlocks == ExtractBlocks(base)

LocalBlocks == ExtractBlocks(local)

RemoteBlocks == ExtractBlocks(remote)

\* block i (from 1) is a conflict: local and remote differ and neither is
\* the base block, a missing base block counting as absent
BlockConflict(i) ==
  /\ LocalBlocks[i] # RemoteBlocks[i]
  /\ \/ i > Len(BaseBlocks)
     \/ /\ LocalBlocks[i] # BaseBlocks[i]
        /\ RemoteBlocks[i] # BaseBlocks[i]

\* the output entry C11 gives block i (from 1)
ExpectedEntry(i) ==
  IF BlockConflict(i)
  THEN <<MarkStart>> \o LocalBlocks[i].text \o <<MarkRemote>>
         \o RemoteBlocks[i].text \o <<MarkEnd>>
  ELSE IF LocalBlocks[i] = RemoteBlocks[i] THEN LocalBlocks[i].text
  ELSE IF RemoteBlocks[i] = BaseBlocks[i] THEN LocalBlocks[i].text
  ELSE RemoteBlocks[i].text

\* C11 as stated: when local and remote have the same number n of blocks,
\* the output is one entry for each of the n blocks, whatever the number of
\* base blocks, and each conflicting block has exactly one conflict at
\* block_i
C11_BlockwiseMerge ==
  (pc = "tmerged" /\ Len(LocalBlocks) = Len(RemoteBlocks)) =>
    /\ ~raised
    /\ merged = Str(Join([i \in 1..Len(LocalBlocks) |-> ExpectedEntry(i)]))
    /\ \A i \in 1..Len(LocalBlocks) :
         Cardinality({j \in 1..Len(conflicts) :
                        conflicts[j].path = BlockPath(i - 1)})
           = IF BlockConflict(i) THEN 1 ELSE 0
    /\ Len(conflicts)
         = Cardinality({i \in 1..Len(LocalBlocks) : BlockConflict(i)})

\* C12: when local and remote have different numbers of blocks,
\* merge_template returns the local text as it is, with exactly one
\* conflict, at entire_file, and raises nothing
C12_StructuralDivergence ==
  (pc = "tmerged" /\ Len(LocalBlocks) # Len(RemoteBlocks)) =>
    /\ ~raised
    /\ merged = local
    /\ Len(conflicts) = 1
    /\ conflicts[1].path = "entire_file"
    /\ conflicts[1].base_value = base
    /\ conflicts[1].local_value = local
    /\ conflicts[1].remote_value = remote

\* C12's case: local is one directive followed by a blank, remote has two
\* blocks
C12_Witness ==
  /\ pc = "tmerged"
  /\ local = Str(<<"{{a}}", Blank>>)
  /\ Len(LocalBlocks) = 1
  /\ Len(RemoteBlocks) = 2
  /\ merged = local
  /\ Len(conflicts) = 1

\* C13 as stated: when apply_merged_files is given a conflict that has no
\* resolution, writing the conflict header does not raise, and from then on
\* values.yaml holds the header followed by the merged values
C13_UnresolvedDoNotRaise ==
  AnyUnresolved(PassedConflicts) =>
    /\ failedAt # "header"
    /\ upc \in {"converters", "chart", "templates", "examples",
                "remove_backup", "snapshot", "cleanup", "done"}
         => elem["values"] = "header_and_merged"

\* C14 as stated: after a successful upgrade the written values hold the
\* remote value at the path of every conflict resolved take_remote and the
\* merger's value at the path of every conflict resolved keep_local, with
\* or without --auto-resolve
C14_ResolutionsApplied ==
  (upc = "done") =>
    /\ elem["values"] = "merged"
    /\ \A i \in 1..Len(conf) :
         /\ conf[i] = "take_remote" => mergedValues[i] = "remote"
         /\ conf[i] = "keep_local" => mergedValues[i] = "tentative"

\* the ways out of the command C15 lists: success, and a failure of the
\* merge, of the resolver or of a step of the apply stage
ListedExits ==
  {"none", "merge", "resolver", "report", "backup", "resolutions", "values",
   "header", "converters", "chart", "templates", "examples", "remove_backup",
   "snapshot"}

\* C15 as stated: when the command has returned or failed in one of those
\* ways, no temporary directory of the target or of the base version is
\* left, and the element directory that stood in for the base is still
\* there
C15_TempCleanup ==
  (upc \in {"done", "failed", "returned"} /\ failedAt \in ListedExits) =>
    /\ tmpRemote # "dir"
    /\ tmpBase \notin {"dir", "leaked"}
    /\ elem # NoDir

\* C16 as stated: with --dry-run no step changes the element directory
\* (its snapshot included), the backup directory or the temporary
\* directories
C16_DryRunChangesNothing ==
  [][dryRun => /\ elem' = elem
               /\ backup' = backup
               /\ tmpRemote' = tmpRemote
               /\ tmpBase' = tmpBase]_vars

\* the nodes where local and remote are both sequences and neither is a
\* named list
PosListNodes ==
  {n \in Nodes(base, local, remote, <<>>) :
     /\ IsList(n.l) /\ IsList(n.r)
     /\ ~IsNamedList(n.l) /\ ~IsNamedList(n.r)}

\* the conflicts reported below a path
ConflictsBelow(path) ==
  {i \in 1..Len(conflicts) :
     /\ Len(conflicts[i].path) > Len(path)
     /\ SubSeq(conflicts[i].path, 1, Len(path)) = path}

\* C17 as stated: for sequences that are not named lists the merger returns
\* L when L = R, R when B = L, L when B = R, and otherwise L with exactly
\* one conflict at the sequence's path; it reports no conflict inside the
\* sequence
C17_PositionalLists ==
  Returned =>
    \A n \in PosListNodes :
      LET at == ConflictsAt(n.path)
          m == At(merged, n.path)
      IN /\ ConflictsBelow(n.path) = {}
         /\ IF Eq(n.l, n.r) THEN m = n.l /\ at = {}
            ELSE IF Eq(n.b, n.l) THEN m = n.r /\ at = {}
            ELSE IF Eq(n.b, n.r) THEN m = n.l /\ at = {}
            ELSE /\ m = n.l
                 /\ Cardinality(at) = 1
                 /\ \A i \in at :
                      /\ conflicts[i].local_value = n.l
                      /\ conflicts[i].remote_value = n.r

\* C18: merge(B, X, X) returns X and no conflict, whatever B is
C18_Convergence ==
  (pc = "merged" /\ Eq(local, remote)) =>
    (~raised /\ merged = local /\ conflicts = <<>>)

\* C18's case: X is a mapping with a key and B is a truthy value that is
\* not a mapping
C18_Witness ==
  /\ pc = "merged"
  /\ local = remote
  /\ IsMap(local) /\ Truthy(local)
  /\ ~IsMap(base) /\ Truthy(base)
  /\ merged = local


\* the comments a mapping carries on key k
CommentsOn(m, k) == IF HasCa(m) THEN {c \in m.ca : c[1] = k} ELSE {}

\* the child of r under k, when r has one
ChildOf(r, k) == IF IsMap(r) /\ HasKey(r, k) THEN Get(r, k) ELSE Null

\* the item of the sequence r that is named as item it, when r has one
ItemLike(r, it) ==
  IF IsList(r) /\ \E j \in 1..Len(r.items) :
                    IsMap(r.items[j]) /\ GetOrNull(r.items[j], "name") = GetOrNull(it, "name")
  THEN r.items[CHOOSE j \in 1..Len(r.items) :
                 IsMap(r.items[j]) /\ GetOrNull(r.items[j], "name") = GetOrNull(it, "name")]
  ELSE Null

RECURSIVE CommentsKept(_, _, _)
\* m, the merged node that stands where l stands in L and r in R, has on
\* every key it shares with l the comments of l, on every key it has from r
\* alone the comments of r, and so have the mappings below it, those inside
\* named-list items included
CommentsKept(l, r, m) ==
  IF IsMap(l) /\ IsMap(m) THEN
    /\ \A k \in KeySet(l) \cap KeySet(m) :
         /\ CommentsOn(l, k) \subseteq CommentsOn(m, k)
         /\ CommentsKept(Get(l, k), ChildOf(r, k), Get(m, k))
    /\ IsMap(r) =>
         \A k \in (KeySet(r) \cap KeySet(m)) \ KeySet(l) :
           CommentsOn(r, k) \subseteq CommentsOn(m, k)
  ELSE IF IsList(l) /\ IsList(m) THEN
    \A i \in 1..Len(m.items) :
      LET it == ItemLike(l, m.items[i])
      IN (IsMap(m.items[i]) /\ IsMap(it)) =>
           CommentsKept(it, ItemLike(r, m.items[i]), m.items[i])
  ELSE TRUE

\* C19: every key present both in L and in the merged tree, at any depth
\* and inside named-list items too, carries L's comments in the merged tree,
\* and a key that comes from R alone carries R's comments
C19_CommentPreservation ==
  (pc = "merged" /\ ~raised /\ IsMap(local) /\ IsMap(remote)) =>
    CommentsKept(local, remote, merged)

\* C20: merge returns a tree and a conflict list for every triple of
\* inputs and never raises, a base of another type than L and R included
C20_MergeIsTotal == (pc = "merged") => ~raised

\* item.get('name') of an element, None for one that is no mapping
NameOf(it) == IF IsMap(it) THEN GetOrNull(it, "name") ELSE Null

\* the merges of the local element it with a remote item of its name, over
\* the base item of that name, or the empty mapping when base has none
MergesOf(it) ==
  {DeepMerge(bi, it, remote.items[k], <<SelSeg(NameOf(it))>>).val :
     bi \in {Mp(<<>>)} \cup
            (IF IsList(base)
             THEN {base.items[j] : j \in {j \in 1..Len(base.items) :
                                           IsMap(base.items[j]) /\ NameOf(base.items[j]) = NameOf(it)}}
             ELSE {}),
     k \in {k \in 1..Len(remote.items) :
              IsMap(remote.items[k]) /\ HasKey(remote.items[k], "name")
                /\ NameOf(remote.items[k]) = NameOf(it)}}

\* C21: when L or R is a named list, every element of L is in the merged
\* sequence, itself or merged with the remote item of its name, and so is
\* every element of R whose name no local element has; elements of L that
\* are no mappings, that have a null or empty name or that share a name
\* are not excepted
C21_NoLocalItemLost ==
  (Returned /\ IsList(local) /\ IsList(remote) /\ ~Eq(local, remote)
     /\ (IsNamedList(local) \/ IsNamedList(remote))) =>
    /\ IsList(merged)
    /\ \A i \in 1..Len(local.items) :
         \E j \in 1..Len(merged.items) :
           \/ merged.items[j] = local.items[i]
           \/ IsMap(local.items[i]) /\ merged.items[j] \in MergesOf(local.items[i])
    /\ \A k \in 1..Len(remote.items) :
         (IsMap(remote.items[k]) /\ HasKey(remote.items[k], "name")
            /\ \A i \in 1..Len(local.items) :
                  NameOf(local.items[i]) # NameOf(remote.items[k])) =>
           \E j \in 1..Len(merged.items) : merged.items[j] = remote.items[k]
====
